---- MODULE Spec2Model ----
(***************************************************************************)
(* Behavioural model of two UI source files of bitburner-src:              *)
(*                                                                         *)
(*   src/Faction/ui/PurchaseableAugmentation.tsx                           *)
(*       the table row that offers one augmentation for purchase           *)
(*   src/ui/React/VFX.tsx                                                  *)
(*       BlackScreen (fade overlay) and GlitchyTypography (glitch text)    *)
(*                                                                         *)
(* Each component is a state machine of its own (SpecPA, SpecBS / FairBS,  *)
(* SpecGT); while one runs, the variables of the others stay idle.         *)
(*                                                                         *)
(* React is modelled by what it does to these components: a render is the  *)
(* component function run on the current props and state; a setState made  *)
(* during a render or in a callback is committed and followed by the       *)
(* re-render it causes within the same step (JavaScript is single-threaded *)
(* and runs each callback to completion).                                  *)
(***************************************************************************)
EXTENDS Integers, Sequences, FiniteSets, TLC

VARIABLES
  \* ---- PurchaseableAugmentation ----
  Augmentations,   \* the catalog: name -> [name, baseCost, baseRepRequirement, owned]
  props,           \* IProps: [augName, owned]
  faction,         \* [playerReputation, augmentationPriceMult2, augmentationRepRequirementMult]
  p,               \* IPlayer: [money, queuedAugmentations, augmentations]
  prereqsMet,      \* what hasAugmentationPrereqs(aug) answers
  Settings,        \* [SuppressBuyAugmentationConfirmation]
  view,            \* what the last render produced
  popupOpen,       \* the purchase confirmation popup is shown
  purchaseCalls,   \* calls of purchaseAugmentation so far
  rerenderCalls,   \* calls of props.rerender so far
  lastEvent,       \* the last thing that happened to the row
  \* ---- BlackScreen ----
  bsProps,         \* [isFadingIn, fadeInMs, fadeOutMs]; a duration is <<>> (undefined) or <<ms>>
  bsMounted,
  opacity,         \* useState opacity, in units of 1/One
  bsTimer,         \* useState timer: <<>> (undefined) or <<handle>>
  bsLive,          \* handles of intervals that were set and not cleared
  bsClosure,       \* per interval created (handle 1, 2, ...): the props its callback closed over
  onDoneCalls,     \* number of onDone calls so far
  bsPropChanges,   \* number of prop changes so far
  bsTicks,         \* interval firings so far, modulo 2
  \* ---- GlitchyTypography ----
  gtProps,         \* [maxOffset, intervalMs, probability2]
  gtMounted,
  gtRemoved,       \* the component was mounted and has been unmounted
  gtTimer,         \* useState timer: <<>> or <<handle>>
  gtEffectTimer,   \* `timer` as closed over by the effect that ran last (and by its cleanup)
  gtLive,          \* handles of intervals that were set and not cleared
  gtClosure,       \* per interval created (handle 1, 2, ...): the props its callback closed over
  lastOffsets,     \* useState lastOffsets (one colour): [x, y]
  gtPropChanges

paVars == <<Augmentations, props, faction, p, prereqsMet, Settings, view, popupOpen,
            purchaseCalls, rerenderCalls, lastEvent>>
bsVars == <<bsProps, bsMounted, opacity, bsTimer, bsLive, bsClosure,
            onDoneCalls, bsPropChanges, bsTicks>>
gtVars == <<gtProps, gtMounted, gtRemoved, gtTimer, gtEffectTimer, gtLive, gtClosure,
            lastOffsets, gtPropChanges>>
vars == <<paVars, bsVars, gtVars>>

(***************************************************************************)
(* Bounds of the model.                                                    *)
(***************************************************************************)
\* purchaseAugmentation is called at most this many times in a behaviour
MaxPurchases == 2
\* GlitchyTypography's props are changed by its parent at most this many times
MaxPropChanges == 2
\* BlackScreen's props are changed by its parent at most this many times
MaxFadeChanges == 1
\* fade durations range over 0, interval, ..., MaxFadeTicks * interval
MaxFadeTicks == 2
\* opacity is followed up to this many whole units outside [0, 1]
MaxOvershoot == 1
\* maxOffset ranges over 0 .. MaxOffsetBound
MaxOffsetBound == 1

(***************************************************************************)
(* PurchaseableAugmentation                                                *)
(***************************************************************************)
NeuroFluxGovernor == "NeuroFluxGovernor"
CatalogNames == {NeuroFluxGovernor, "Augmented Targeting I"}
AugNames == CatalogNames \cup {"NoSuchAugmentation"}

\* Input values.  Money may be negative (the game does not floor it); costs and
\* multipliers are not.  The price multiplier is kept in halves so that 1.5 is
\* a value: augmentationPriceMult2 = 2 * augmentationPriceMult.
BaseCosts == {0, 1000}
PriceMultValues2 == <<2, 3, 0>>
MoneyValues == <<1400, 1500, 3000, 0 - 500>>
BaseReps == {500}
RepMults == {2}
Reputations == {0, 1000, 1200}

\* const aug = Augmentations[props.augName]
augIsNull == props.augName \notin DOMAIN Augmentations
aug == Augmentations[props.augName]

\* twice getMoneyCost(): aug.baseCost * augmentationPriceMult
getMoneyCost2 == aug.baseCost * faction.augmentationPriceMult2

getRepCost == aug.baseRepRequirement * faction.augmentationRepRequirementMult

hasPrereqs == prereqsMet

hasReputation == faction.playerReputation >= getRepCost

ownedInstalledOnly ==
  \E installedAug \in p.augmentations : installedAug = props.augName
\* owned(): the name is among the queued or the installed augmentations
owned ==
  \/ \E queuedAug \in p.queuedAugmentations : queuedAug = props.augName
  \/ \E installedAug \in p.augmentations : installedAug = props.augName

hasCostNoZeroTest == 2 * p.money < getMoneyCost2
\* const hasCost = aug.baseCost !== 0 && p.money.lt(aug.baseCost * augmentationPriceMult)
hasCost == aug.baseCost # 0 /\ 2 * p.money < getMoneyCost2

StatusNull == "null"
StatusLockedPrereqs == "LOCKED (Requires prerequisite)"
StatusUnlocked == "UNLOCKED"
StatusLockedRep == "LOCKED (Requires reputation)"
IsLocked(status) == status \in {StatusLockedPrereqs, StatusLockedRep}

StatusChainPrereqsEnabled ==
  IF ~hasPrereqs
    THEN [disabled |-> FALSE, status |-> StatusLockedPrereqs, color |-> "error"]
  ELSE IF aug.name # NeuroFluxGovernor /\ (aug.owned \/ owned)
    THEN [disabled |-> TRUE, status |-> StatusNull, color |-> "primary"]
  ELSE IF hasReputation
    THEN [disabled |-> FALSE, status |-> StatusUnlocked, color |-> "primary"]
  ELSE [disabled |-> TRUE, status |-> StatusLockedRep, color |-> "error"]
\* "Determine UI properties": the if / else-if chain on hasReq, ownership and hasRep
StatusChain ==
  IF ~hasPrereqs
    THEN [disabled |-> TRUE, status |-> StatusLockedPrereqs, color |-> "error"]
  ELSE IF aug.name # NeuroFluxGovernor /\ (aug.owned \/ owned)
    THEN [disabled |-> TRUE, status |-> StatusNull, color |-> "primary"]
  ELSE IF hasReputation
    THEN [disabled |-> FALSE, status |-> StatusUnlocked, color |-> "primary"]
  ELSE [disabled |-> TRUE, status |-> StatusLockedRep, color |-> "error"]

UIPropertiesNoCostCheck == StatusChain
\* ... followed by: if (hasCost) { disabled = true; color = "error"; }
UIProperties ==
  IF hasCost THEN [StatusChain EXCEPT !.disabled = TRUE, !.color = "error"]
  ELSE StatusChain

\* Requirements(props): the colour of the cost and reputation cells
RequirementsColor ==
  IF ~hasPrereqs THEN "error"
  ELSE IF ~hasReputation /\ ~hasCost THEN "error" ELSE "primary"

Unrendered ==
  [outcome |-> "unrendered", disabled |-> FALSE, status |-> StatusNull, color |-> "primary",
   buyButton |-> FALSE, requirements |-> FALSE, reqColor |-> "primary",
   cost2 |-> 0, rep |-> 0, hasReq |-> FALSE, hasRep |-> FALSE, hasCost |-> FALSE,
   logged |-> FALSE]

\* The component function: what one render run produces.
PurchaseableAugmentation ==
  IF augIsNull
    THEN [Unrendered EXCEPT !.outcome = "threw"]                     \* line 74: throw
  ELSE IF augIsNull
    THEN [Unrendered EXCEPT !.outcome = "empty", !.logged = TRUE]    \* lines 114-119
  ELSE [outcome |-> "row",
        disabled |-> UIProperties.disabled,
        status |-> UIProperties.status,
        color |-> UIProperties.color,
        buyButton |-> ~props.owned /\ UIProperties.status # StatusNull,
        requirements |-> ~props.owned,
        reqColor |-> RequirementsColor,
        \* the props handed to Requirements
        cost2 |-> getMoneyCost2,
        rep |-> getRepCost,
        hasReq |-> hasPrereqs,
        hasRep |-> hasReputation,
        hasCost |-> hasCost,
        logged |-> FALSE]

InitPA ==
  /\ \E c \in BaseCosts, r \in BaseReps, o \in BOOLEAN :
       Augmentations = [n \in CatalogNames |->
                          [name |-> n, baseCost |-> c, baseRepRequirement |-> r, owned |-> o]]
  /\ props \in [augName : AugNames, owned : BOOLEAN]
  /\ \E i \in 1 .. Len(PriceMultValues2) :
       faction \in [playerReputation : Reputations,
                    augmentationPriceMult2 : {PriceMultValues2[i]},
                    augmentationRepRequirementMult : RepMults]
  /\ \E i \in 1 .. Len(MoneyValues) :
       p \in [money : {MoneyValues[i]},
              queuedAugmentations : SUBSET CatalogNames,
              augmentations : SUBSET CatalogNames]
  /\ prereqsMet \in BOOLEAN
  /\ Settings \in [SuppressBuyAugmentationConfirmation : BOOLEAN]
  /\ view = Unrendered
  /\ popupOpen = FALSE
  /\ purchaseCalls = 0
  /\ rerenderCalls = 0
  /\ lastEvent = "created"

IdlePA ==
  /\ Augmentations = [n \in CatalogNames |->
                        [name |-> n, baseCost |-> 0, baseRepRequirement |-> 500, owned |-> FALSE]]
  /\ props = [augName |-> NeuroFluxGovernor, owned |-> FALSE]
  /\ faction = [playerReputation |-> 0, augmentationPriceMult2 |-> 2,
                augmentationRepRequirementMult |-> 2]
  /\ p = [money |-> 0, queuedAugmentations |-> {}, augmentations |-> {}]
  /\ prereqsMet = TRUE
  /\ Settings = [SuppressBuyAugmentationConfirmation |-> FALSE]
  /\ view = Unrendered
  /\ popupOpen = FALSE
  /\ purchaseCalls = 0
  /\ rerenderCalls = 0
  /\ lastEvent = "created"

\* The parent renders the row (the first time, or again with the same inputs).
Render ==
  /\ view' = PurchaseableAugmentation
  /\ lastEvent' = "render"
  /\ UNCHANGED <<Augmentations, props, faction, p, prereqsMet, Settings, popupOpen,
                 purchaseCalls, rerenderCalls>>
  /\ UNCHANGED <<bsVars, gtVars>>

\* purchaseAugmentation(aug, faction) of FactionHelpers: the item is queued for the
\* player and its cost deducted.
purchaseAugmentation ==
  /\ p' = [p EXCEPT !.money = @ - (getMoneyCost2 \div 2),
                    !.queuedAugmentations = @ \cup {aug.name}]
  /\ purchaseCalls' = purchaseCalls + 1

\* props.rerender(): the parent re-renders, and with it this row, on the new state.
rerender ==
  /\ rerenderCalls' = rerenderCalls + 1
  /\ view' = PurchaseableAugmentation'

handleClickNeverAsks ==
  /\ UNCHANGED <<Augmentations, props, faction, prereqsMet, Settings>>
  /\ view.outcome = "row" /\ view.buyButton
  /\ purchaseCalls < MaxPurchases
  /\ lastEvent' = "click"
  /\ IF view.disabled
       THEN UNCHANGED <<popupOpen, p, purchaseCalls, rerenderCalls, view>>
       ELSE /\ purchaseAugmentation
            /\ rerender
            /\ UNCHANGED popupOpen
  /\ UNCHANGED <<bsVars, gtVars>>
\* handleClick(): the Buy button's onClick, with `disabled` as the last render left it
handleClick ==
  /\ UNCHANGED <<Augmentations, props, faction, prereqsMet, Settings>>
  /\ view.outcome = "row" /\ view.buyButton
  /\ purchaseCalls < MaxPurchases
  /\ lastEvent' = "click"
  /\ IF view.disabled
       THEN UNCHANGED <<popupOpen, p, purchaseCalls, rerenderCalls, view>>
       ELSE IF ~Settings.SuppressBuyAugmentationConfirmation
         THEN /\ popupOpen' = TRUE
              /\ UNCHANGED <<p, purchaseCalls, rerenderCalls, view>>
         ELSE /\ purchaseAugmentation
              /\ rerender
              /\ UNCHANGED popupOpen
  /\ UNCHANGED <<bsVars, gtVars>>

\* PurchaseAugmentationPopup, confirmed: the purchase is applied, the popup goes.
PopupConfirm ==
  /\ UNCHANGED <<Augmentations, props, faction, prereqsMet, Settings>>
  /\ popupOpen
  /\ purchaseCalls < MaxPurchases
  /\ purchaseAugmentation
  /\ rerender
  /\ popupOpen' = FALSE
  /\ lastEvent' = "confirm"
  /\ UNCHANGED <<bsVars, gtVars>>

\* PurchaseAugmentationPopup, dismissed: the pending purchase is dropped.
PopupCancel ==
  /\ popupOpen
  /\ popupOpen' = FALSE
  /\ lastEvent' = "cancel"
  /\ UNCHANGED <<Augmentations, props, faction, p, prereqsMet, Settings, view,
                 purchaseCalls, rerenderCalls>>
  /\ UNCHANGED <<bsVars, gtVars>>

NextPA == Render \/ handleClick \/ PopupConfirm \/ PopupCancel

(***************************************************************************)
(* BlackScreen                                                             *)
(***************************************************************************)
\* const interval = 10
interval == 10

RECURSIVE Gcd(_, _)
Gcd(a, b) == IF b = 0 THEN a ELSE Gcd(b, a % b)
RECURSIVE LcmUpTo(_)
LcmUpTo(n) == IF n <= 1 THEN 1 ELSE (n * LcmUpTo(n - 1)) \div Gcd(n, LcmUpTo(n - 1))

\* Opacity 1.0.  Opacity is counted in units of 1/One, One being divisible by
\* every fade length in ticks, so that each step interval / animationMs is exact.
One == LcmUpTo(MaxFadeTicks)

\* An optional duration: <<>> is undefined, <<ms>> is ms milliseconds.
FadeDurations == {<<>>} \cup {<<k * interval>> : k \in 0 .. MaxFadeTicks}
BlackScreenProps == [isFadingIn : BOOLEAN, fadeInMs : FadeDurations, fadeOutMs : FadeDurations]

\* A number grows without bound only in the model's arithmetic: a double stops
\* changing once the step is below its precision.  The model lets opacity absorb
\* the step MaxOvershoot units outside [0, 1]; every test the code makes on it
\* (<= 0, >= 1) has the same answer from there on.
Absorb(x) ==
  IF x < 0 - MaxOvershoot * One THEN 0 - MaxOvershoot * One
  ELSE IF x > One + MaxOvershoot * One THEN One + MaxOvershoot * One
  ELSE x

\* let done = (opacity <= 0 && (isFadingIn || fadeOutMs === undefined)) || (opacity >= 1 && !isFadingIn)
done(op, pr) ==
  \/ op <= 0 /\ (pr.isFadingIn \/ pr.fadeOutMs = <<>>)
  \/ op >= One /\ ~pr.isFadingIn

\* The component's own state, as one record.
bsState ==
  [opacity |-> opacity, timer |-> bsTimer, live |-> bsLive, closure |-> bsClosure,
   onDone |-> onDoneCalls]

Handle(t) == {t[i] : i \in 1 .. Len(t)}

BlackScreenLeavesInterval(st, pr) ==
  LET isAnimationRunning == st.timer # <<>>
      isDone == done(st.opacity, pr)
      start == ~isAnimationRunning /\ ~isDone
      zeroIn == pr.fadeInMs = <<0>> /\ pr.isFadingIn
      zeroOut == pr.fadeOutMs = <<0>> /\ ~pr.isFadingIn
      h == Len(st.closure) + 1
      s1 == IF start /\ zeroIn THEN [st EXCEPT !.opacity = 0]
            ELSE IF start /\ zeroOut THEN [st EXCEPT !.opacity = One]
            ELSE IF start
              THEN [st EXCEPT !.timer = <<h>>, !.live = @ \cup {h},
                              !.closure = Append(@, pr)]
            ELSE st
      running2 == isAnimationRunning \/ (start /\ (zeroIn \/ zeroOut))
      done2 == isDone \/ (start /\ (zeroIn \/ zeroOut))
  IN  IF running2 /\ done2
        THEN [s1 EXCEPT !.timer = <<>>, !.onDone = @ + 1]
        ELSE s1
\* One run of the component function on state st and props pr: the state its
\* setOpacity / setTimer calls leave, with the interval set or cleared on the way.
BlackScreen(st, pr) ==
  LET isAnimationRunning == st.timer # <<>>
      isDone == done(st.opacity, pr)
      start == ~isAnimationRunning /\ ~isDone
      zeroIn == pr.fadeInMs = <<0>> /\ pr.isFadingIn
      zeroOut == pr.fadeOutMs = <<0>> /\ ~pr.isFadingIn
      h == Len(st.closure) + 1
      s1 == IF start /\ zeroIn THEN [st EXCEPT !.opacity = 0]
            ELSE IF start /\ zeroOut THEN [st EXCEPT !.opacity = One]
            ELSE IF start
              THEN [st EXCEPT !.timer = <<h>>, !.live = @ \cup {h},
                              !.closure = Append(@, pr)]
            ELSE st
      \* the two locals as the first if leaves them
      running2 == isAnimationRunning \/ (start /\ (zeroIn \/ zeroOut))
      done2 == isDone \/ (start /\ (zeroIn \/ zeroOut))
  IN  IF running2 /\ done2
        \* clearInterval(timer); setTimer(undefined); onDone()
        THEN [s1 EXCEPT !.timer = <<>>, !.live = @ \ Handle(st.timer), !.onDone = @ + 1]
        ELSE s1

\* A render whose setState calls changed the state is followed by another one.
RECURSIVE RenderBlackScreen(_, _)
RenderBlackScreen(st, pr) ==
  LET s1 == BlackScreen(st, pr)
  IN  IF s1.opacity = st.opacity /\ s1.timer = st.timer THEN s1
      ELSE RenderBlackScreen(s1, pr)

\* The interval callback of handle h, on the props it closed over: the new opacity.
IntervalCallback(op, c) ==
  IF c.isFadingIn
    THEN IF c.fadeInMs = <<>> THEN 0
         ELSE Absorb(op - (One * interval) \div c.fadeInMs[1])
    ELSE IF c.fadeOutMs = <<>> THEN 0
         ELSE Absorb(op + (One * interval) \div c.fadeOutMs[1])

CommitBS(st) ==
  /\ opacity' = st.opacity
  /\ bsTimer' = st.timer
  /\ bsLive' = st.live
  /\ bsClosure' = st.closure
  /\ onDoneCalls' = st.onDone

InitBS ==
  /\ bsProps \in BlackScreenProps
  /\ bsMounted = FALSE
  /\ opacity = 0
  /\ bsTimer = <<>>
  /\ bsLive = {}
  /\ bsClosure = <<>>
  /\ onDoneCalls = 0
  /\ bsPropChanges = 0
  /\ bsTicks = 0

IdleBS ==
  /\ bsProps = [isFadingIn |-> TRUE, fadeInMs |-> <<>>, fadeOutMs |-> <<>>]
  /\ bsMounted = FALSE
  /\ opacity = 0
  /\ bsTimer = <<>>
  /\ bsLive = {}
  /\ bsClosure = <<>>
  /\ onDoneCalls = 0
  /\ bsPropChanges = 0
  /\ bsTicks = 0

\* First render: useState(isFadingIn ? 1 : 0), useState(undefined).
BSMount ==
  /\ ~bsMounted
  /\ bsMounted' = TRUE
  /\ CommitBS(RenderBlackScreen(
       [bsState EXCEPT !.opacity = IF bsProps.isFadingIn THEN One ELSE 0], bsProps))
  /\ UNCHANGED <<bsProps, bsPropChanges, bsTicks>>
  /\ UNCHANGED <<paVars, gtVars>>

\* The parent renders again with the same props.
BSRerender ==
  /\ bsMounted
  /\ CommitBS(RenderBlackScreen(bsState, bsProps))
  /\ UNCHANGED <<bsProps, bsMounted, bsPropChanges, bsTicks>>
  /\ UNCHANGED <<paVars, gtVars>>

\* The parent renders with other props.
BSSetProps ==
  /\ bsMounted
  /\ bsPropChanges < MaxFadeChanges
  /\ \E pr \in BlackScreenProps :
       /\ pr # bsProps
       /\ bsProps' = pr
       /\ CommitBS(RenderBlackScreen(bsState, pr))
  /\ bsPropChanges' = bsPropChanges + 1
  /\ UNCHANGED <<bsMounted, bsTicks>>
  /\ UNCHANGED <<paVars, gtVars>>

\* A live interval fires: its callback sets the opacity and the component renders.
BSTick ==
  /\ \E h \in bsLive :
       CommitBS(RenderBlackScreen(
         [bsState EXCEPT !.opacity = IntervalCallback(opacity, bsClosure[h])], bsProps))
  /\ bsTicks' = (bsTicks + 1) % 2
  /\ UNCHANGED <<bsProps, bsMounted, bsPropChanges>>
  /\ UNCHANGED <<paVars, gtVars>>

NextBS == BSMount \/ BSRerender \/ BSSetProps \/ BSTick

(***************************************************************************)
(* GlitchyTypography                                                       *)
(***************************************************************************)
IntervalsMs == {100, 200}
\* probability in halves: probability2 = 2 * probability
Probabilities2 == {0, 1, 2}
\* Math.random() in halves: 0 or 0.5
Randoms2 == {0, 1}
GlitchyTypographyProps ==
  [maxOffset : 0 .. MaxOffsetBound, intervalMs : IntervalsMs, probability2 : Probabilities2]

\* the effect's dependency array: [probability, intervalMs, maxOffset]
deps(pr) == <<pr.probability2, pr.intervalMs, pr.maxOffset>>

gtState ==
  [timer |-> gtTimer, effectTimer |-> gtEffectTimer, live |-> gtLive, closure |-> gtClosure]

\* The function the effect returned.  Its `timer` is the one of the render the
\* effect ran in: clearTimeout(timer); setTimer(undefined)
cleanup(st) ==
  [st EXCEPT !.live = @ \ Handle(st.effectTimer), !.timer = <<>>]

\* The effect body, run after a render that saw `timer` = renderTimer.
effect(renderTimer, st, pr) ==
  LET cleared == [st EXCEPT !.live = @ \ Handle(renderTimer)]     \* clearTimeout(timer)
  IN  IF pr.maxOffset = 0
        THEN [cleared EXCEPT !.timer = <<>>, !.effectTimer = renderTimer]
        ELSE LET h == Len(st.closure) + 1
             IN  [cleared EXCEPT !.live = @ \cup {h},
                                 !.closure = Append(@, pr),
                                 !.timer = <<h>>,
                                 !.effectTimer = renderTimer]

CommitGT(st) ==
  /\ gtTimer' = st.timer
  /\ gtEffectTimer' = st.effectTimer
  /\ gtLive' = st.live
  /\ gtClosure' = st.closure

InitGT ==
  /\ gtProps \in GlitchyTypographyProps
  /\ gtMounted = FALSE
  /\ gtRemoved = FALSE
  /\ gtTimer = <<>>
  /\ gtEffectTimer = <<>>
  /\ gtLive = {}
  /\ gtClosure = <<>>
  /\ lastOffsets = [x |-> 0, y |-> 0]
  /\ gtPropChanges = 0

IdleGT ==
  /\ gtProps = [maxOffset |-> 0, intervalMs |-> 100, probability2 |-> 0]
  /\ gtMounted = FALSE
  /\ gtRemoved = FALSE
  /\ gtTimer = <<>>
  /\ gtEffectTimer = <<>>
  /\ gtLive = {}
  /\ gtClosure = <<>>
  /\ lastOffsets = [x |-> 0, y |-> 0]
  /\ gtPropChanges = 0

\* Mount: the first render (timer undefined), then the effect.
GTMount ==
  /\ ~gtMounted /\ ~gtRemoved
  /\ gtMounted' = TRUE
  /\ CommitGT(effect(<<>>, gtState, gtProps))
  /\ UNCHANGED <<gtProps, gtRemoved, lastOffsets, gtPropChanges>>
  /\ UNCHANGED <<paVars, bsVars>>

\* The parent renders with other props.  When a dependency changed, the previous
\* effect's cleanup runs and then the effect, closed over this render's timer.
GTSetProps ==
  /\ gtMounted
  /\ gtPropChanges < MaxPropChanges
  /\ \E pr \in GlitchyTypographyProps :
       /\ pr # gtProps
       /\ gtProps' = pr
       /\ IF deps(pr) # deps(gtProps)
            THEN CommitGT(effect(gtTimer, cleanup(gtState), pr))
            ELSE UNCHANGED <<gtTimer, gtEffectTimer, gtLive, gtClosure>>
  /\ gtPropChanges' = gtPropChanges + 1
  /\ UNCHANGED <<gtMounted, gtRemoved, lastOffsets>>
  /\ UNCHANGED <<paVars, bsVars>>

\* The component is removed: the last effect's cleanup runs.
GTUnmount ==
  /\ gtMounted
  /\ gtMounted' = FALSE
  /\ gtRemoved' = TRUE
  /\ CommitGT(cleanup(gtState))
  /\ UNCHANGED <<gtProps, lastOffsets, gtPropChanges>>
  /\ UNCHANGED <<paVars, bsVars>>

\* A live interval fires, on the props it closed over.  setLastOffsets on a
\* removed component changes nothing.
GTTick ==
  /\ \E h \in gtLive, r \in Randoms2 :
       LET c == gtClosure[h]
       IN  IF r > c.probability2 \/ ~gtMounted
             THEN UNCHANGED lastOffsets
             ELSE \E x, y \in (0 - c.maxOffset) .. (c.maxOffset - 1) :
                    lastOffsets' = [x |-> x, y |-> y]
  /\ UNCHANGED <<gtProps, gtMounted, gtRemoved, gtTimer, gtEffectTimer, gtLive, gtClosure,
                 gtPropChanges>>
  /\ UNCHANGED <<paVars, bsVars>>

NextGT == GTMount \/ GTSetProps \/ GTUnmount \/ GTTick

(***************************************************************************)
(* Specifications                                                          *)
(***************************************************************************)
InitRow == InitPA /\ IdleBS /\ IdleGT
SpecPA == InitRow /\ [][NextPA]_vars

InitFade == IdlePA /\ InitBS /\ IdleGT
SpecBS == InitFade /\ [][NextBS]_vars

\* setInterval keeps firing a live interval's callback.
FairBS == InitFade /\ [][NextBS]_vars /\ WF_vars(BSTick) /\ WF_vars(BSMount)

InitGlitch == IdlePA /\ IdleBS /\ InitGT
SpecGT == InitGlitch /\ [][NextGT]_vars

(***************************************************************************)
(* Properties of PurchaseableAugmentation (checked under SpecPA)           *)
(***************************************************************************)
\* the player owns the augmentation (the catalog's flag) or has it installed or queued
\* NotAlreadyOwned: the repeatable augmentation, or one the player does not have
PlayerHas ==
  aug.owned \/ props.augName \in (p.queuedAugmentations \cup p.augmentations)
NotAlreadyOwned == props.augName = NeuroFluxGovernor \/ ~PlayerHas

\* C1: while a prerequisite is missing, the rendered row is Locked (LOCKED status,
\* error colour) with purchase disabled, whatever reputation and money are, and
\* no click has opened the popup or called purchaseAugmentation.
C1_LockedWithoutPrereqs ==
  ~prereqsMet =>
    /\ view.outcome = "row" =>
         /\ view.disabled
         /\ view.status = StatusLockedPrereqs
         /\ view.color = "error"
    /\ ~popupOpen
    /\ purchaseCalls = 0

\* a Buy click on a row with a missing prerequisite, with reputation and money enough
C1_Witness ==
  /\ lastEvent = "click"
  /\ ~prereqsMet
  /\ view.buyButton
  /\ view.hasRep /\ ~view.hasCost
  /\ aug.baseCost # 0

\* C2, as claimed: a non-repeatable augmentation the player owns or has queued is
\* AlreadyOwned before anything else: disabled, with neither LOCKED nor UNLOCKED
\* status and no Buy button, whatever the prerequisites are.
C2_AlreadyOwnedFirst ==
  (view.outcome = "row" /\ props.augName # NeuroFluxGovernor /\ PlayerHas) =>
    /\ view.disabled
    /\ view.status = StatusNull
    /\ ~view.buyButton

\* C2, amended: the same with the prerequisites met; with a prerequisite missing
\* the row of an owned augmentation is the LOCKED row of C1.
C2_AlreadyOwnedAfterPrereqs ==
  (view.outcome = "row" /\ props.augName # NeuroFluxGovernor /\ PlayerHas) =>
    IF prereqsMet
      THEN /\ view.disabled
           /\ view.status = StatusNull
           /\ ~view.buyButton
      ELSE /\ view.disabled
           /\ view.status = StatusLockedPrereqs

\* an owned augmentation's row, prerequisites met, reputation and money enough
C2_Witness ==
  /\ view.outcome = "row"
  /\ props.augName # NeuroFluxGovernor
  /\ ~aug.owned
  /\ props.augName \in p.queuedAugmentations /\ props.augName \notin p.augmentations
  /\ prereqsMet
  /\ view.hasRep /\ ~view.hasCost
  /\ view.disabled /\ view.status = StatusNull

\* C3, as claimed: with prerequisites met and the row not already owned, the
\* status is UNLOCKED only with reputation and money both enough; short of
\* either, it is LOCKED.
C3_UnlockedNeedsBoth ==
  (view.outcome = "row" /\ prereqsMet /\ NotAlreadyOwned) =>
    /\ view.status = StatusUnlocked => (view.hasRep /\ ~view.hasCost)
    /\ (~view.hasRep \/ view.hasCost) => IsLocked(view.status)

\* C3, amended: the status is UNLOCKED exactly when reputation is enough and
\* LOCKED exactly when it is not; purchase is enabled, in the primary colour,
\* exactly when reputation and money are both enough.  Short of money alone the
\* status stays UNLOCKED, with purchase disabled and the error colour.
C3_UnlockedOnReputation ==
  (view.outcome = "row" /\ prereqsMet /\ NotAlreadyOwned) =>
    /\ view.status = StatusUnlocked <=> view.hasRep
    /\ view.status = StatusLockedRep <=> ~view.hasRep
    /\ ~view.disabled <=> (view.hasRep /\ ~view.hasCost)
    /\ view.color = "primary" <=> (view.hasRep /\ ~view.hasCost)
    /\ view.hasRep <=> faction.playerReputation >= view.rep

\* reputation enough, money short: UNLOCKED but disabled
C3_Witness ==
  /\ view.outcome = "row" /\ prereqsMet /\ NotAlreadyOwned
  /\ view.hasRep /\ view.hasCost
  /\ view.status = StatusUnlocked
  /\ view.disabled /\ view.color = "error"

\* C4: an augName without catalog entry is logged and renders an empty
\* fragment; no error is raised.
C4_NotFoundRendersNothing ==
  (view.outcome # "unrendered" /\ augIsNull) => (view.outcome = "empty" /\ view.logged)

\* C5: a Buy click on an enabled row purchases at once and calls rerender, without
\* popup, when SuppressBuyAugmentationConfirmation is set; otherwise it raises the
\* popup and purchases nothing.  purchaseAugmentation is called by such a click or
\* by a confirm of the popup only, and a cancel leaves player and faction as they were.
C5_ConfirmationGate ==
  [][ /\ (lastEvent' = "click" /\ view.outcome = "row" /\ ~view.disabled) =>
           IF Settings.SuppressBuyAugmentationConfirmation
             THEN /\ purchaseCalls' = purchaseCalls + 1
                  /\ rerenderCalls' = rerenderCalls + 1
                  /\ popupOpen' = popupOpen
             ELSE /\ popupOpen'
                  /\ purchaseCalls' = purchaseCalls
                  /\ rerenderCalls' = rerenderCalls
                  /\ p' = p /\ faction' = faction
      /\ purchaseCalls' # purchaseCalls =>
           \/ lastEvent' = "click" /\ Settings.SuppressBuyAugmentationConfirmation
           \/ lastEvent' = "confirm" /\ popupOpen
      /\ lastEvent' = "cancel" =>
           /\ p' = p /\ faction' = faction
           /\ purchaseCalls' = purchaseCalls
    ]_vars

\* a click raised the popup, which was then cancelled: nothing was purchased
C5_Witness ==
  /\ lastEvent = "cancel"
  /\ ~Settings.SuppressBuyAugmentationConfirmation
  /\ ~view.disabled
  /\ ~popupOpen
  /\ purchaseCalls = 0

\* C7, as claimed: the insufficient-funds flag is set exactly when the effective
\* cost is positive and the money is below it.
C7_FundsAgainstEffectiveCost ==
  view.outcome = "row" =>
    (view.hasCost <=> (view.cost2 > 0 /\ 2 * p.money < view.cost2))

\* C7, amended: the flag is set exactly when baseCost is not 0 and the money is
\* below the effective cost.  That is the claimed condition whenever the effective
\* cost is positive or the money is not negative; the flag disables purchase.
C7_FundsAgainstBaseCost ==
  view.outcome = "row" =>
    /\ view.cost2 = aug.baseCost * faction.augmentationPriceMult2
    /\ view.hasCost <=> (aug.baseCost # 0 /\ 2 * p.money < view.cost2)
    /\ (view.cost2 > 0 \/ p.money >= 0) =>
         (view.hasCost <=> (view.cost2 > 0 /\ 2 * p.money < view.cost2))
    /\ view.hasCost => view.disabled

\* baseCost 1000, multiplier 1.5, money 1400: effective cost 1500, funds short
C7_Witness ==
  /\ view.outcome = "row"
  /\ aug.baseCost = 1000 /\ faction.augmentationPriceMult2 = 3 /\ p.money = 1400
  /\ view.cost2 = 2 * 1500
  /\ view.hasCost /\ view.disabled

\* C10: with prerequisites met and the row not owned, the Requirements cells are
\* in the error colour exactly when the Buy button is, that is exactly when
\* reputation or money is short.
C10_RequirementsColourFollowsButton ==
  (view.outcome = "row" /\ prereqsMet /\ NotAlreadyOwned /\ view.requirements) =>
    /\ view.reqColor = "error" <=> view.color = "error"
    /\ view.reqColor = "error" <=> (~view.hasRep \/ view.hasCost)

(***************************************************************************)
(* Properties of GlitchyTypography (checked under SpecGT)                  *)
(***************************************************************************)
\* C6: once the component has been removed, or while its maxOffset is 0, no
\* interval it set is still live.
C6_NoLiveIntervalWhenOff ==
  (gtRemoved \/ (gtMounted /\ gtProps.maxOffset = 0)) => gtLive = {}

(***************************************************************************)
(* Properties of BlackScreen (checked under SpecBS and FairBS)             *)
(***************************************************************************)
isDoneNow == done(opacity, bsProps)

zeroDuration ==
  \/ bsProps.isFadingIn /\ bsProps.fadeInMs = <<0>>
  \/ ~bsProps.isFadingIn /\ bsProps.fadeOutMs = <<0>>

\* C8: with the interval firing, a mounted fade that is not complete gets
\* complete: the done condition holds, the interval is cleared and onDone was called.
C8_FadeCompletes ==
  (bsMounted /\ ~isDoneNow) ~> (isDoneNow /\ bsLive = {} /\ bsTimer = <<>> /\ onDoneCalls > 0)

\* C9: with fixed props, onDone is called at most once and only with the done
\* condition holding and the interval cleared; no interval is live in the done
\* state, at most one is live at any time, and a zero-duration fade sets no
\* interval and has called onDone by the end of the first render.
C9_OnDoneOnceIntervalCleared ==
  (bsMounted /\ bsPropChanges = 0) =>
    /\ onDoneCalls <= 1
    /\ onDoneCalls = 1 => (isDoneNow /\ bsTimer = <<>>)
    /\ isDoneNow => bsLive = {}
    /\ Cardinality(bsLive) <= 1
    /\ bsLive = Handle(bsTimer)
    /\ zeroDuration => (Len(bsClosure) = 0 /\ onDoneCalls = 1)

\* a fade of two ticks ran on its interval to the end
C9_Witness ==
  /\ bsMounted /\ bsPropChanges = 0
  /\ Len(bsClosure) = 1
  /\ bsProps.isFadingIn /\ bsProps.fadeInMs = <<2 * interval>>
  /\ opacity = 0
  /\ onDoneCalls = 1
  /\ bsLive = {}

====
